---- MODULE Spec2Model ----
(***************************************************************************)
(* Model of example/plot_nemd.py: the NEMD post-processing script.         *)
(* The script is a straight-line program; every statement (or group of     *)
(* adjacent assignments) is one action, every file.writelines call is one  *)
(* action, and every call that can raise has a failing twin.               *)
(*                                                                         *)
(* Numbers: numpy floats are modelled as exact rationals [n, d] in lowest  *)
(* terms.  d = 0 models the IEEE results of a division by zero: n/0 is inf *)
(* and 0/0 is nan, so that mean() of an empty slice is nan as in numpy.    *)
(* Arrays are functions on 0..len-1 so that indices are Python's.          *)
(* Lengths are counted in units of 4.1948415859093096 A, the literal       *)
(* assigned to Ly; the literal 41.948415859093096 of l is 10 such units.   *)
(***************************************************************************)
EXTENDS Integers, Sequences, FiniteSets, TLC

\* ---------------------------------------------------------------- bounds
MaxNdata == 4
MaxTemp == 1
MaxCols == 11
MaxRate == 2
MaxLag == 1
MaxFreq == 1

\* ------------------------------------------------------ program constants
GroupCount == 9
CellLen == 10
LyLiteral == 1
SampleInterval == 1000
DtDenominator == 1000
NsDivisor == 1000
GFactor == 160000
GcFactor == 16000

\* ------------------------------------------------------- float arithmetic
Abs(x) == IF x < 0 THEN -x ELSE x

Sign(x) == IF x < 0 THEN -1 ELSE IF x > 0 THEN 1 ELSE 0

RECURSIVE GCD(_, _)
GCD(a, b) == IF b = 0 THEN a ELSE GCD(b, a % b)

Rat(n, d) ==
    IF d = 0 THEN [n |-> Sign(n), d |-> 0]
    ELSE LET g == GCD(Abs(n), Abs(d))
         IN  [n |-> Sign(d) * (n \div g), d |-> Abs(d) \div g]

FromInt(k) == [n |-> k, d |-> 1]

RatAdd(x, y) == Rat(x.n * y.d + y.n * x.d, x.d * y.d)

RatSub(x, y) == Rat(x.n * y.d - y.n * x.d, x.d * y.d)

RatMul(x, y) == Rat(x.n * y.n, x.d * y.d)

RatDiv(x, y) == Rat(x.n * y.d, x.d * y.n)

IsNaN(x) == x.n = 0 /\ x.d = 0

\* a name that has not been assigned yet
Undef == [n |-> 0, d |-> -1]

EmptyArr == [k \in {} |-> Undef]

PyLen(a) == Cardinality(DOMAIN a)

RECURSIVE SumOver(_, _)
SumOver(f, S) ==
    IF S = {} THEN 0
    ELSE LET k == CHOOSE x \in S : TRUE
         IN  f[k] + SumOver(f, S \ {k})

\* int(ndata/2): true division then truncation, ndata >= 0
Midpoint(n) == n \div 2

\* rows selected by the slice [int(ndata/2)+1:]
WindowRows(n) == {r \in 0..(n - 1) : r >= Midpoint(n) + 1}

\* mean(T[int(ndata/2)+1:,1:],axis=0): one entry per column 1..ncols-1
TempAve(Tarr, n, ncols) ==
    [g \in 0..(ncols - 2) |->
        RatDiv(FromInt(SumOver([r \in WindowRows(n) |-> Tarr[r][g + 1]], WindowRows(n))),
               FromInt(Cardinality(WindowRows(n))))]

\* dt=0.001
Dt == Rat(1, DtDenominator)

\* t=dt*np.arange(1,ndata+1)*Ns/1000
TimeAxis(n) ==
    [k \in 0..(n - 1) |->
        RatDiv(RatMul(RatMul(Dt, FromInt(k + 1)), FromInt(SampleInterval)), FromInt(NsDivisor))]

\* group_idx=range(1,10)
group_idx == [k \in 0..(GroupCount - 1) |-> k + 1]

\* --------------------------------------------------------------- inputs
\* what load_compute(['T']) returns: T of shape (n, c), Ein and Eout of
\* length n.  The temperature of every group rises by h at time step k (the
\* end of the transient) and falls by one per group column; thermostat
\* energies accumulate linearly at rates a (in) and b (out).
ComputeInputs ==
    UNION {
      {[T    |-> [shape |-> <<n, c>>,
                  data  |-> [r \in 0..(n - 1) |->
                                [g \in 0..(c - 1) |-> (IF r < k THEN 0 ELSE h) + c - g]]],
        Ein  |-> [j \in 0..(n - 1) |-> FromInt(-a * (j + 1))],
        Eout |-> [j \in 0..(n - 1) |-> FromInt(b * (j + 1))]] :
          c \in 1..MaxCols, a \in 1..MaxRate, b \in 1..MaxRate,
          k \in 0..n, h \in 1..MaxTemp} :
      n \in 0..MaxNdata}

\* what load_shc(250,1000)['run0'] returns: lag-indexed t, Ki, Ko and
\* frequency-indexed nu, jwi, jwo
ShcInputs ==
    {[t   |-> [k \in 0..(nk - 1) |-> FromInt(k)],
      Ki  |-> [k \in 0..(nk - 1) |-> FromInt(2 * (k + 1))],
      Ko  |-> [k \in 0..(nk - 1) |-> FromInt(k)],
      nu  |-> [k \in 0..(nw - 1) |-> FromInt(k)],
      jwi |-> [k \in 0..(nw - 1) |-> FromInt(k + 2)],
      jwo |-> [k \in 0..(nw - 1) |-> FromInt(1)]] :
        nk \in 0..MaxLag, nw \in 0..MaxFreq}

NoShc == [t |-> EmptyArr, Ki |-> EmptyArr, Ko |-> EmptyArr,
          nu |-> EmptyArr, jwi |-> EmptyArr, jwo |-> EmptyArr]

\* ------------------------------------------------------------ the script
Writers == <<"TempProfile.txt", "EnergyAccumulation.txt",
             "CorrelationTime.txt", "SpectralConductance.txt">>

WriterSet == {Writers[k] : k \in 1..Len(Writers)}

\* the script with np.save moved in front of the plot
ScriptSaveBeforePlot ==
    <<"load_compute", "reduce", "time_axis", "TempProfile.txt",
      "EnergyAccumulation.txt", "flux", "geometry", "load_shc", "spectral",
      "corr_time", "CorrelationTime.txt", "SpectralConductance.txt",
      "save", "plot", "done">>

\* the statements of the script in program order
Script == <<"load_compute", "reduce", "time_axis", "TempProfile.txt",
            "EnergyAccumulation.txt", "flux", "geometry", "load_shc", "spectral",
            "corr_time", "CorrelationTime.txt", "SpectralConductance.txt",
            "plot", "save", "done">>

Idx(s) == CHOOSE k \in 1..Len(Script) : Script[k] = s

StageAfter(s) == Script[Idx(s) + 1]

VARIABLES compute, pc, err, T, Ein, Eout, ndata, temp_ave, t, files, wpc, i,
          deltaT, Q1, Q2, Q, l, A, Vall, G, shc, Lx, Ly, Lz, V, Gc, corr_time,
          plotted, npy

vars == <<compute, pc, err, T, Ein, Eout, ndata, temp_ave, t, files, wpc, i,
          deltaT, Q1, Q2, Q, l, A, Vall, G, shc, Lx, Ly, Lz, V, Gc, corr_time,
          plotted, npy>>

loadVars == <<T, Ein, Eout>>
reduceVars == <<ndata, temp_ave, t>>
fileVars == <<files, wpc, i>>
fluxVars == <<deltaT, Q1, Q2, Q>>
geomVars == <<l, A, Vall, G>>
spectralVars == <<Lx, Ly, Lz, V, Gc>>
outVars == <<plotted, npy>>

Init ==
    /\ compute \in ComputeInputs
    /\ pc = "load_compute"
    /\ err = ""
    /\ T = [shape |-> <<0, 0>>, data |-> EmptyArr]
    /\ Ein = EmptyArr
    /\ Eout = EmptyArr
    /\ ndata = 0
    /\ temp_ave = EmptyArr
    /\ t = EmptyArr
    /\ files = [f \in WriterSet |-> [state |-> "absent", content |-> <<>>]]
    /\ wpc = "idle"
    /\ i = 0
    /\ deltaT = Undef /\ Q1 = Undef /\ Q2 = Undef /\ Q = Undef
    /\ l = EmptyArr /\ A = Undef /\ Vall = Undef /\ G = Undef
    /\ shc = NoShc
    /\ Lx = Undef /\ Ly = Undef /\ Lz = Undef /\ V = Undef
    /\ Gc = EmptyArr
    /\ corr_time = EmptyArr
    /\ plotted = FALSE
    /\ npy = [exists |-> FALSE, data |-> EmptyArr]

Running(stage) == pc = stage /\ err = ""

\* an uncaught exception ends the run at the statement that raised it
Raise(e) == err' = e /\ pc' = pc

\* lines 11-15
LoadCompute ==
    /\ Running("load_compute")
    /\ T' = compute.T /\ Ein' = compute.Ein /\ Eout' = compute.Eout
    /\ pc' = StageAfter(pc)
    /\ UNCHANGED <<compute, err, reduceVars, fileVars, fluxVars, geomVars, shc,
                   spectralVars, corr_time, outVars>>

LoadComputeFail ==
    /\ Running("load_compute")
    /\ Raise("LoaderError")
    /\ UNCHANGED <<compute, loadVars, reduceVars, fileVars, fluxVars, geomVars, shc,
                   spectralVars, corr_time, outVars>>

\* lines 16-17
Reduce ==
    /\ Running("reduce")
    /\ ndata' = T.shape[1]
    /\ temp_ave' = TempAve(T.data, T.shape[1], T.shape[2])
    /\ pc' = StageAfter(pc)
    /\ UNCHANGED <<compute, err, loadVars, t, fileVars, fluxVars, geomVars, shc,
                   spectralVars, corr_time, outVars>>

\* lines 20-22
MakeTimeAxis ==
    /\ Running("time_axis")
    /\ t' = TimeAxis(ndata)
    /\ pc' = StageAfter(pc)
    /\ UNCHANGED <<compute, err, loadVars, ndata, temp_ave, fileVars, fluxVars,
                   geomVars, shc, spectralVars, corr_time, outVars>>

\* ------------------------------------------------------------- writers
HasHeader(w) == w # "TempProfile.txt"

\* the bound of the writer's for loop
RowCount(w) ==
    CASE w = "TempProfile.txt"         -> PyLen(group_idx)
      [] w = "EnergyAccumulation.txt"  -> PyLen(t)
      [] w = "CorrelationTime.txt"     -> PyLen(corr_time)
      [] w = "SpectralConductance.txt" -> PyLen(Gc)

\* every subscript of the format arguments of iteration k is in range
RowIndexOK(w, k) ==
    CASE w = "TempProfile.txt"         -> k < PyLen(group_idx) /\ k < PyLen(temp_ave)
      [] w = "EnergyAccumulation.txt"  -> k < PyLen(t) /\ k < PyLen(Ein) /\ k < PyLen(Eout)
      [] w = "CorrelationTime.txt"     -> k < PyLen(shc.t) /\ k < PyLen(corr_time)
      [] w = "SpectralConductance.txt" -> k < PyLen(shc.nu) /\ k < PyLen(Gc)

\* the values formatted into the line of iteration k
RowData(w, k) ==
    CASE w = "TempProfile.txt"         -> <<FromInt(group_idx[k]), temp_ave[k]>>
      [] w = "EnergyAccumulation.txt"  -> <<t[k], Ein[k], Eout[k]>>
      [] w = "CorrelationTime.txt"     -> <<shc.t[k], corr_time[k]>>
      [] w = "SpectralConductance.txt" -> <<shc.nu[k], Gc[k]>>

\* one file.writelines(...) call appends one chunk to the file
HeaderChunk == [kind |-> "header", cols |-> <<>>]
RowChunk(w, k) == [kind |-> "row", cols |-> RowData(w, k)]
NewlineChunk == [kind |-> "nl", cols |-> <<>>]

WriteChunk(fs, f, c) == [fs EXCEPT ![f].content = Append(@, c)]

\* leaving the with block normally closes the file
ExitNormally(fs, f) == [fs EXCEPT ![f].state = "closed"]

\* an open/close pair without with: an exception skips the close
ExitOnErrorLeak(fs, f) == fs

\* leaving the with block by an exception closes the file as well
ExitOnError(fs, f) == [fs EXCEPT ![f].state = "closed"]

InWriter == pc \in WriterSet /\ err = ""

nonFileVars == <<compute, loadVars, reduceVars, fluxVars, geomVars, shc,
                 spectralVars, corr_time, outVars>>

\* open(name,"w") creates or truncates the file
OpenFile ==
    /\ InWriter /\ wpc = "idle"
    /\ files' = [files EXCEPT ![pc] = [state |-> "open", content |-> <<>>]]
    /\ wpc' = IF HasHeader(pc) THEN "header" ELSE "loop"
    /\ i' = 0
    /\ UNCHANGED <<pc, err, nonFileVars>>

OpenFileFail ==
    /\ InWriter /\ wpc = "idle"
    /\ Raise("OSError")
    /\ UNCHANGED <<fileVars, nonFileVars>>

\* lines 37, 70, 80: the header, with no line terminator
WriteHeader ==
    /\ InWriter /\ wpc = "header"
    /\ files' = WriteChunk(files, pc, HeaderChunk)
    /\ wpc' = "loop"
    /\ UNCHANGED <<pc, err, i, nonFileVars>>

\* lines 29, 39, 72, 82
WriteRow ==
    /\ InWriter /\ wpc = "loop"
    /\ i < RowCount(pc) /\ RowIndexOK(pc, i)
    /\ files' = WriteChunk(files, pc, RowChunk(pc, i))
    /\ wpc' = "nl"
    /\ UNCHANGED <<pc, err, i, nonFileVars>>

\* a subscript out of range while the line is formatted
RowIndexError ==
    /\ InWriter /\ wpc = "loop"
    /\ i < RowCount(pc) /\ ~RowIndexOK(pc, i)
    /\ files' = ExitOnError(files, pc)
    /\ Raise("IndexError")
    /\ UNCHANGED <<wpc, i, nonFileVars>>

\* lines 30, 40, 73, 83
WriteNewline ==
    /\ InWriter /\ wpc = "nl"
    /\ files' = WriteChunk(files, pc, NewlineChunk)
    /\ wpc' = "loop"
    /\ i' = i + 1
    /\ UNCHANGED <<pc, err, nonFileVars>>

\* a writelines call fails (disk full, ...): nothing is appended
WriteError ==
    /\ InWriter
    /\ \/ wpc \in {"header", "nl"}
       \/ wpc = "loop" /\ i < RowCount(pc) /\ RowIndexOK(pc, i)
    /\ files' = ExitOnError(files, pc)
    /\ Raise("OSError")
    /\ UNCHANGED <<wpc, i, nonFileVars>>

\* the loop is exhausted, the with block ends; the file.close() that follows
\* acts on a file that is closed already
CloseFile ==
    /\ InWriter /\ wpc = "loop"
    /\ i >= RowCount(pc)
    /\ files' = ExitNormally(files, pc)
    /\ wpc' = "idle"
    /\ pc' = StageAfter(pc)
    /\ UNCHANGED <<err, i, nonFileVars>>

\* ---------------------------------------------------- flux and geometry
\* a[-1]
Last(a) == a[PyLen(a) - 1]

\* the divisor (ndata/2) of lines 49-50: true division
HalfSteps(n) == Rat(n, 2)

\* line 49: (Ein[int(ndata/2)]-Ein[-1])/(ndata/2)/dt/Ns
FluxIn(E, n) ==
    RatDiv(RatDiv(RatDiv(RatSub(E[Midpoint(n)], Last(E)), HalfSteps(n)), Dt),
           FromInt(SampleInterval))

\* line 50: (Eout[-1]-Eout[int(ndata/2)])/(ndata/2)/dt/Ns
FluxOut(E, n) ==
    RatDiv(RatDiv(RatDiv(RatSub(Last(E), E[Midpoint(n)]), HalfSteps(n)), Dt),
           FromInt(SampleInterval))

\* line 51: mean([Q1,Q1])
FluxMean(q1, q2) == RatDiv(RatAdd(q1, q1), FromInt(2))

\* the subscripts of lines 48-50 are in range
FluxIndexOK ==
    /\ PyLen(temp_ave) > 0
    /\ Midpoint(ndata) < PyLen(Ein)
    /\ Midpoint(ndata) < PyLen(Eout)

\* lines 48-51
Flux ==
    /\ Running("flux") /\ FluxIndexOK
    /\ deltaT' = RatSub(temp_ave[0], Last(temp_ave))
    /\ Q1' = FluxIn(Ein, ndata)
    /\ Q2' = FluxOut(Eout, ndata)
    /\ Q' = FluxMean(Q1', Q2')
    /\ pc' = StageAfter(pc)
    /\ UNCHANGED <<compute, err, loadVars, reduceVars, fileVars, geomVars, shc,
                   spectralVars, corr_time, outVars>>

FluxIndexError ==
    /\ Running("flux") /\ ~FluxIndexOK
    /\ Raise("IndexError")
    /\ UNCHANGED <<compute, loadVars, reduceVars, fileVars, fluxVars, geomVars, shc,
                   spectralVars, corr_time, outVars>>

\* line 53
CellLengths == [k \in 0..2 |-> FromInt(CellLen)]

\* line 57: 1.6*10**5*Q/deltaT/A
Conductance(q, dT, area) == RatDiv(RatDiv(RatMul(FromInt(GFactor), q), dT), area)

\* lines 53-57
Geometry ==
    /\ Running("geometry")
    /\ l' = CellLengths
    /\ A' = RatMul(l'[0], l'[1])
    /\ Vall' = RatMul(A', l'[2])
    /\ G' = Conductance(Q, deltaT, A')
    /\ pc' = StageAfter(pc)
    /\ UNCHANGED <<compute, err, loadVars, reduceVars, fileVars, fluxVars, shc,
                   spectralVars, corr_time, outVars>>

\* ------------------------------------------------------------- spectral
\* line 59
LoadShc ==
    /\ Running("load_shc")
    /\ shc' \in ShcInputs
    /\ pc' = StageAfter(pc)
    /\ UNCHANGED <<compute, err, loadVars, reduceVars, fileVars, fluxVars, geomVars,
                   spectralVars, corr_time, outVars>>

LoadShcFail ==
    /\ Running("load_shc")
    /\ Raise("LoaderError")
    /\ UNCHANGED <<compute, loadVars, reduceVars, fileVars, fluxVars, geomVars, shc,
                   spectralVars, corr_time, outVars>>

\* the volume of the cubic cell, the override ignored
CellVolumeUnified(lx, ly, lz) == RatMul(RatMul(lx, lx), lz)

\* line 64: Lx*Ly*Lz
CellVolume(lx, ly, lz) == RatMul(RatMul(lx, ly), lz)

\* line 65: 1.6*10**4*(shc['jwi']+shc['jwo'])/V/deltaT
SpectralConductance(s, v, dT) ==
    [k \in DOMAIN s.jwi |->
        RatDiv(RatDiv(RatMul(FromInt(GcFactor), RatAdd(s.jwi[k], s.jwo[k])), v), dT)]

\* lines 61-65
Spectral ==
    /\ Running("spectral")
    /\ Lx' = l[0]
    /\ Ly' = FromInt(LyLiteral)
    /\ Lz' = l[2]
    /\ V' = CellVolume(Lx', Ly', Lz')
    /\ Gc' = SpectralConductance(shc, V', deltaT)
    /\ pc' = StageAfter(pc)
    /\ UNCHANGED <<compute, err, loadVars, reduceVars, fileVars, fluxVars, geomVars,
                   shc, corr_time, outVars>>

\* line 68: (shc['Ki']+shc['Ko'])/Ly
CorrelationCurve(s, ly) == [k \in DOMAIN s.Ki |-> RatDiv(RatAdd(s.Ki[k], s.Ko[k]), ly)]

CorrTime ==
    /\ Running("corr_time")
    /\ corr_time' = CorrelationCurve(shc, Ly)
    /\ pc' = StageAfter(pc)
    /\ UNCHANGED <<compute, err, loadVars, reduceVars, fileVars, fluxVars, geomVars,
                   shc, spectralVars, outVars>>

\* ------------------------------------------------------- plot and save
\* lines 85-87: plt.show() returns when the window is closed
Plot ==
    /\ Running("plot")
    /\ plotted' = TRUE
    /\ pc' = StageAfter(pc)
    /\ UNCHANGED <<compute, err, loadVars, reduceVars, fileVars, fluxVars, geomVars,
                   shc, spectralVars, corr_time, npy>>

PlotFail ==
    /\ Running("plot")
    /\ Raise("PlotError")
    /\ UNCHANGED <<compute, loadVars, reduceVars, fileVars, fluxVars, geomVars, shc,
                   spectralVars, corr_time, outVars>>

\* line 89
SaveGc ==
    /\ Running("save")
    /\ npy' = [exists |-> TRUE, data |-> Gc]
    /\ pc' = StageAfter(pc)
    /\ UNCHANGED <<compute, err, loadVars, reduceVars, fileVars, fluxVars, geomVars,
                   shc, spectralVars, corr_time, plotted>>

SaveGcFail ==
    /\ Running("save")
    /\ Raise("OSError")
    /\ UNCHANGED <<compute, loadVars, reduceVars, fileVars, fluxVars, geomVars, shc,
                   spectralVars, corr_time, outVars>>

Next ==
    \/ LoadCompute \/ LoadComputeFail
    \/ Reduce
    \/ MakeTimeAxis
    \/ OpenFile \/ OpenFileFail
    \/ WriteHeader \/ WriteRow \/ RowIndexError \/ WriteNewline \/ WriteError
    \/ CloseFile
    \/ Flux \/ FluxIndexError
    \/ Geometry
    \/ LoadShc \/ LoadShcFail
    \/ Spectral
    \/ CorrTime
    \/ Plot \/ PlotFail
    \/ SaveGc \/ SaveGcFail

Spec == Init /\ [][Next]_vars

\* ==================================================== properties
Past(stage) == Idx(pc) > Idx(stage)

CountKind(content, kind) ==
    Cardinality({k \in 1..Len(content) : content[k].kind = kind})

\* the 0-based number of the line that chunk k of the file lies on
LineOf(content, k) ==
    Cardinality({j \in 1..(k - 1) : content[j].kind = "nl"})

\* the 1-based number of the data tuple that chunk k of the file is
RowNumber(content, k) ==
    Cardinality({j \in 1..k : content[j].kind = "row"})

\* the writer ran to its end: closed, header and all rows written
Complete(w) ==
    /\ files[w].state = "closed"
    /\ CountKind(files[w].content, "header") = (IF HasHeader(w) THEN 1 ELSE 0)
    /\ CountKind(files[w].content, "row") = RowCount(w)
    /\ CountKind(files[w].content, "nl") = RowCount(w)

\* the last ndata/2 rows of the time-step axis
SecondHalf(n) == {r \in 0..(n - 1) : r >= n - (n \div 2)}

MeanOver(Tarr, rows, col) ==
    RatDiv(FromInt(SumOver([r \in rows |-> Tarr[r][col]], rows)),
           FromInt(Cardinality(rows)))

\* C1: for more than 2 time steps and more than 2 group columns, temp_ave[g]
\* is the mean of column g+1 over exactly the second half of the rows
\* (rows 2 and 3 of a 4-row array).
C1_SecondHalfMean ==
    (Past("reduce") /\ ndata > 2 /\ T.shape[2] > 2) =>
        \A g \in DOMAIN temp_ave :
            temp_ave[g] = MeanOver(T.data, SecondHalf(ndata), g + 1)

\* C2: the flux Q is the average of the two estimators, (Q1 + Q2) / 2.
C2_FluxAveragesBoth ==
    Past("flux") => Q = RatDiv(RatAdd(Q1, Q2), FromInt(2))

\* C3: a finished header file has the header on a line of its own and one
\* line per sample: N + 1 terminated lines, no data tuple on the header line.
C3_HeaderOwnLine ==
    \A w \in WriterSet :
        (HasHeader(w) /\ Past(w)) =>
            /\ CountKind(files[w].content, "nl") = RowCount(w) + 1
            /\ \A k \in 1..Len(files[w].content) :
                   files[w].content[k].kind = "row" => LineOf(files[w].content, k) >= 1

\* C4: for C >= 2 columns the TempProfile.txt writer completes without error
\* and emits exactly C-1 lines, line k holding the group index and temp_ave[k].
C4_OneLinePerGroup ==
    T.shape[2] >= 2 =>
        /\ ~(pc = "TempProfile.txt" /\ err = "IndexError")
        /\ Past("TempProfile.txt") =>
               /\ CountKind(files["TempProfile.txt"].content, "nl") = T.shape[2] - 1
               /\ CountKind(files["TempProfile.txt"].content, "row") = T.shape[2] - 1

\* C5: at most one output file is open, an open file belongs to the writer
\* that is running, and no file is left open when the run has moved on,
\* finished or stopped on an error, a failed write included.
C5_ScopedFiles ==
    /\ Cardinality({f \in WriterSet : files[f].state = "open"}) <= 1
    /\ \A f \in WriterSet : files[f].state = "open" => (pc = f /\ err = "")

C5_Witness ==
    /\ pc \in WriterSet /\ err = "OSError"
    /\ files[pc].state = "closed"
    /\ CountKind(files[pc].content, "row") > 0

\* C6: with fewer than 2 time steps the run stops with an error and no
\* average of an empty slice is written to TempProfile.txt; with at least 2
\* time steps the window is not empty.
C6_FailFastOnShortSeries ==
    /\ Past("reduce") => ndata >= 2
    /\ \A k \in 1..Len(files["TempProfile.txt"].content) :
           files["TempProfile.txt"].content[k].kind = "row" =>
               ~IsNaN(files["TempProfile.txt"].content[k].cols[2])
    /\ (Past("reduce") /\ ndata >= 2) => \A g \in DOMAIN temp_ave : ~IsNaN(temp_ave[g])

\* the simulated time between sample floor(ndata/2) and the last sample
ElapsedBetween(n) ==
    RatMul(RatMul(FromInt(n - 1 - (n \div 2)), Dt), FromInt(SampleInterval))

\* C7: each estimator is the energy difference between the midpoint sample
\* and the last sample divided by the simulated time between those samples;
\* the step count used as divisor is the index distance of the two samples.
C7_RateOverElapsedTime ==
    (Past("flux") /\ ndata >= 2) =>
        /\ HalfSteps(ndata) = FromInt(ndata - 1 - (ndata \div 2))
        /\ Q1 = RatDiv(RatSub(Ein[ndata \div 2], Ein[ndata - 1]), ElapsedBetween(ndata))
        /\ Q2 = RatDiv(RatSub(Eout[ndata - 1], Eout[ndata \div 2]), ElapsedBetween(ndata))

\* C8: the first column of data row k (k = 1..ndata) of EnergyAccumulation.txt
\* is the time of sample k in picoseconds, k * dt * Ns.
C8_TimeInPicoseconds ==
    \A k \in 1..Len(files["EnergyAccumulation.txt"].content) :
        LET c == files["EnergyAccumulation.txt"].content
        IN  c[k].kind = "row" =>
                c[k].cols[1] =
                    RatMul(RatMul(FromInt(RowNumber(c, k)), Dt), FromInt(SampleInterval))

\* C9: the overridden Ly is local to the spectral step: l, A, Vall and G keep
\* the values of the geometry step (G uses A only), while Gc (through
\* V = Lx*Ly*Lz) and the correlation-time curve use the overridden Ly, which
\* is not l[1].
C9_LyOverrideIsLocal ==
    /\ Past("geometry") =>
           /\ DOMAIN l = 0..2
           /\ \A k \in 0..2 : l[k] = FromInt(CellLen)
           /\ A = RatMul(l[0], l[1])
           /\ Vall = RatMul(A, l[2])
           /\ G = RatDiv(RatDiv(RatMul(FromInt(GFactor), Q), deltaT), A)
    /\ Past("spectral") =>
           /\ Ly = FromInt(LyLiteral) /\ Ly # l[1]
           /\ Lx = l[0] /\ Lz = l[2]
           /\ V = RatMul(RatMul(l[0], Ly), l[2])
           /\ DOMAIN Gc = DOMAIN shc.jwi
           /\ \A k \in DOMAIN Gc :
                  Gc[k] = RatDiv(RatDiv(RatMul(FromInt(GcFactor),
                                               RatAdd(shc.jwi[k], shc.jwo[k])),
                                        RatMul(RatMul(l[0], Ly), l[2])), deltaT)
    /\ Past("corr_time") =>
           /\ DOMAIN corr_time = DOMAIN shc.Ki
           /\ \A k \in DOMAIN corr_time :
                  corr_time[k] = RatDiv(RatAdd(shc.Ki[k], shc.Ko[k]), Ly)

C9_Witness ==
    /\ pc = "done"
    /\ PyLen(Gc) > 0 /\ PyLen(corr_time) > 0
    /\ deltaT.d > 0 /\ deltaT.n # 0
    /\ Gc[0].d > 0 /\ Gc[0].n # 0

\* C10: outputs appear in the order TempProfile.txt, EnergyAccumulation.txt,
\* CorrelationTime.txt, SpectralConductance.txt, plot, Gc.npy; wherever the
\* run stands or has stopped, every earlier text file is complete and closed
\* and every later one absent, and Gc.npy exists only after the plot returned.
C10_OrderedOutputs ==
    /\ \A w \in WriterSet :
           /\ Idx(w) < Idx(pc) => Complete(w)
           /\ Idx(w) > Idx(pc) => files[w].state = "absent"
    /\ npy.exists => (plotted /\ pc = "done" /\ \A w \in WriterSet : Complete(w))
    /\ (pc \in {"plot", "save"} /\ ~plotted) => ~npy.exists
    /\ (pc = "load_shc" /\ err # "") =>
           /\ Complete("TempProfile.txt") /\ Complete("EnergyAccumulation.txt")
           /\ files["CorrelationTime.txt"].state = "absent"
           /\ files["SpectralConductance.txt"].state = "absent"
           /\ ~npy.exists

C10_Witness ==
    /\ pc = "load_shc" /\ err = "LoaderError"
    /\ Complete("TempProfile.txt") /\ Complete("EnergyAccumulation.txt")
    /\ PyLen(t) > 0
    /\ files["CorrelationTime.txt"].state = "absent"

====
